---- MODULE Spec2Model ----
(***************************************************************************)
(* Model of jszwec/s3fs: the directory enumerator (dir.ReadDir, readAll,   *)
(* readNext, mergeDirFiles, dir.Read), the filesystem facade (S3FS.Open,   *)
(* Stat, ReadDir, stat, openDir) and the file handle (openFile, file.Read, *)
(* file.Seek, file.Stat) over an S3 bucket.                                *)
(*                                                                         *)
(* Strings are sequences of byte values, compared bytewise as Go compares  *)
(* strings and as S3 orders keys.                                          *)
(***************************************************************************)
EXTENDS Integers, Sequences, FiniteSets, TLC

\* ------------------------------------------------------------------------
\* Bytes and strings
\* ------------------------------------------------------------------------
DOT == 46
SLASH == 47
ChA == 97
ChB == 98
ChC == 99
ChD == 100
ChT == 116
ChX == 120

Txt == <<DOT, ChT, ChX, ChT>>
RootName == <<DOT>>

\* Go's s < t on strings: bytewise lexicographic order.
StrLess(s, t) ==
  \E i \in 1..Len(t) :
     /\ \A j \in 1..(i - 1) : j <= Len(s) /\ s[j] = t[j]
     /\ (i > Len(s) \/ s[i] < t[i])

StrGeq(s, t) == ~StrLess(s, t)

HasPrefix(s, p) == Len(p) <= Len(s) /\ SubSeq(s, 1, Len(p)) = p

HasSuffix(s, p) == Len(p) <= Len(s) /\ SubSeq(s, Len(s) - Len(p) + 1, Len(s)) = p

\* strings.TrimRight(s, "/"): drops every trailing slash.
RECURSIVE TrimRightSlash(_)
TrimRightSlash(s) ==
  IF Len(s) > 0 /\ s[Len(s)] = SLASH
    THEN TrimRightSlash(SubSeq(s, 1, Len(s) - 1))
    ELSE s

\* strings.TrimSuffix(s, "/"): drops one trailing slash.
TrimSuffixSlash(s) ==
  IF HasSuffix(s, <<SLASH>>) THEN SubSeq(s, 1, Len(s) - 1) ELSE s

\* Index of the last slash of s, 0 when there is none.
LastSlash(s) ==
  IF \E i \in 1..Len(s) : s[i] = SLASH
    THEN CHOOSE i \in 1..Len(s) :
           s[i] = SLASH /\ \A j \in (i + 1)..Len(s) : s[j] # SLASH
    ELSE 0

\* Index of the first slash of s, 0 when there is none.
FirstSlash(s) ==
  IF \E i \in 1..Len(s) : s[i] = SLASH
    THEN CHOOSE i \in 1..Len(s) :
           s[i] = SLASH /\ \A j \in 1..(i - 1) : s[j] # SLASH
    ELSE 0

\* path.Base
Base(p) ==
  IF p = <<>> THEN RootName
  ELSE LET t == TrimRightSlash(p)
           r == SubSeq(t, LastSlash(t) + 1, Len(t))
       IN IF r = <<>> THEN <<SLASH>> ELSE r

\* The elements of a slash separated path, empty elements included.
RECURSIVE Elems(_)
Elems(s) ==
  LET i == FirstSlash(s)
  IN IF i = 0 THEN <<s>>
     ELSE <<SubSeq(s, 1, i - 1)>> \o Elems(SubSeq(s, i + 1, Len(s)))

\* A variant of ValidPath that lets empty elements pass.
ValidPath_AllowsEmptyElems(name) ==
  \/ name = RootName
  \/ \A i \in 1..Len(Elems(name)) :
        LET e == Elems(name)[i]
        IN e # <<DOT>> /\ e # <<DOT, DOT>>

\* fs.ValidPath: "." is valid; otherwise every element is non-empty and
\* is neither "." nor "..".
ValidPath(name) ==
  \/ name = RootName
  \/ \A i \in 1..Len(Elems(name)) :
        LET e == Elems(name)[i]
        IN e # <<>> /\ e # <<DOT>> /\ e # <<DOT, DOT>>

\* ------------------------------------------------------------------------
\* The bucket: a set of object keys, and its listing under a prefix
\* ------------------------------------------------------------------------
KeyA == <<ChA>>                                            \* "a"
KeyATxt == <<ChA>> \o Txt                                  \* "a.txt"
KeyABTxt == <<ChA, SLASH, ChB>> \o Txt                     \* "a/b.txt"
KeyACD == <<ChA, SLASH, ChC, SLASH, ChD>>                  \* "a/c/d"
KeyBCTxt == <<ChB, SLASH, ChC>> \o Txt                     \* "b/c.txt"

Keys == {KeyA, KeyATxt, KeyABTxt, KeyACD, KeyBCTxt}

\* The sequence of the elements of a set of strings in ascending order.
RECURSIVE SortedSeq(_)
SortedSeq(S) ==
  IF S = {} THEN <<>>
  ELSE LET m == CHOOSE x \in S : \A y \in S \ {x} : StrLess(x, y)
       IN <<m>> \o SortedSeq(S \ {m})

\* What S3 lists under a prefix with delimiter "/": a key whose rest has no
\* delimiter is an object, otherwise it is rolled up into the common prefix
\* that ends at the first delimiter.
ItemOf(key, prefix) ==
  LET rest == SubSeq(key, Len(prefix) + 1, Len(key))
      i == FirstSlash(rest)
  IN IF i = 0 THEN [key |-> key, isPrefix |-> FALSE]
     ELSE [key |-> prefix \o SubSeq(rest, 1, i), isPrefix |-> TRUE]

ItemsUnder(K, prefix) == {ItemOf(k, prefix) : k \in {x \in K : HasPrefix(x, prefix)}}

\* S3 returns keys and common prefixes in one ascending order of their
\* strings; a page is a run of that order.
Listing(K, prefix) ==
  LET items == ItemsUnder(K, prefix)
      order == SortedSeq({it.key : it \in items})
  IN [i \in 1..Len(order) |-> CHOOSE it \in items : it.key = order[i]]

\* The ways to cut n items into consecutive non-empty pages.
RECURSIVE Compositions(_)
Compositions(n) ==
  IF n = 0 THEN {<<>>}
  ELSE UNION {{<<k>> \o c : c \in Compositions(n - k)} : k \in 1..n}

RECURSIVE SumTo(_, _)
SumTo(c, j) == IF j = 0 THEN 0 ELSE c[j] + SumTo(c, j - 1)

SelectKeys(L, from, to, wantPrefix) ==
  LET F[i \in from - 1..to] ==
        IF i < from THEN <<>>
        ELSE IF L[i].isPrefix = wantPrefix THEN F[i - 1] \o <<L[i].key>>
        ELSE F[i - 1]
  IN F[to]

\* s3.ListObjectsOutput
Page(prefixes, contents, truncated, next) ==
  [CommonPrefixes |-> prefixes, Contents |-> contents,
   IsTruncated |-> truncated, NextMarker |-> next]

\* The pages of a store that answers by marker (style "s3": IsTruncated is
\* set on every page, NextMarker on every truncated page; the marker is
\* modelled by the number of the page it follows), and the scripted pages of
\* the test double mockClient (style "mock": neither field is set, and the
\* double answers by its own call counter).
PagesOf(L, c, style) ==
  IF style = "s3" /\ Len(c) = 0
    THEN <<Page(<<>>, <<>>, "false", 0)>>
    ELSE [j \in 1..Len(c) |->
           LET from == SumTo(c, j - 1) + 1
               to == SumTo(c, j)
           IN Page(SelectKeys(L, from, to, TRUE), SelectKeys(L, from, to, FALSE),
                   IF style = "mock" THEN "nil"
                   ELSE IF j < Len(c) THEN "true" ELSE "false",
                   IF style = "s3" /\ j < Len(c) THEN j ELSE 0)]

\* A store may list a common prefix again on the same or on a later page
\* (fs_test.go, "with dir duplicates").
DupChoices(pages) ==
  {<<0, <<>>>>} \cup
  {<<j, q>> : j \in 1..Len(pages),
              q \in UNION {{pages[i].CommonPrefixes[x] : x \in 1..Len(pages[i].CommonPrefixes)}
                             : i \in 1..Len(pages)}}

ValidDup(pages, dup) ==
  \/ dup[1] = 0
  \/ \E i \in 1..dup[1] : \E x \in 1..Len(pages[i].CommonPrefixes) :
        pages[i].CommonPrefixes[x] = dup[2]

WithDup(pages, dup) ==
  IF dup[1] = 0 THEN pages
  ELSE [pages EXCEPT ![dup[1]].CommonPrefixes = @ \o <<dup[2]>>]

Styles == {"s3", "mock"}

\* The prefix dir.readNext lists for a directory name.
ListPrefix(name) ==
  LET n == TrimRightSlash(name)
  IN IF n = RootName THEN <<>> ELSE n \o <<SLASH>>

ScriptsOf(L, c) ==
  LET base == PagesOf(L, c, "s3")
  IN {[style |-> st, pages |-> WithDup(PagesOf(L, c, st), dup), dup |-> dup[1] # 0] :
        st \in Styles, dup \in {x \in DupChoices(base) : ValidDup(base, x)}}

Scripts(K, name) ==
  LET L == Listing(K, ListPrefix(name))
  IN UNION {ScriptsOf(L, c) : c \in Compositions(Len(L))}

\* mockClient.ListObjects past its script, fs_test.go
FinalEmptyPage == Page(<<>>, <<>>, "false", 0)

\* A variant of ListObjects in which every store answers by the number of
\* calls it has served.
ListObjects_ByCounter(script, marker, i) ==
  IF i + 1 <= Len(script.pages) THEN script.pages[i + 1] ELSE FinalEmptyPage

\* The answer of the store to ListObjects(Marker: marker); i counts the calls
\* the test double has served.
ListObjects(script, marker, i) ==
  LET idx == IF script.style = "s3" THEN marker + 1 ELSE i + 1
  IN IF idx <= Len(script.pages) THEN script.pages[idx] ELSE FinalEmptyPage

\* ------------------------------------------------------------------------
\* Errors and entries
\* ------------------------------------------------------------------------
Err(kind, op, path, cause) == [kind |-> kind, op |-> op, path |-> path, cause |-> cause]

NoErr == Err("nil", "", <<>>, "")
EOF == Err("EOF", "", <<>>, "")                 \* io.EOF
BackendErr == Err("backend", "", <<>>, "")      \* an awserr that is not a not-found code
ErrNotExist == Err("ErrNotExist", "", <<>>, "") \* fs.ErrNotExist
ErrInvalid == Err("ErrInvalid", "", <<>>, "")   \* fs.ErrInvalid
errNotDir == Err("errNotDir", "", <<>>, "")

\* &fs.PathError{Op: op, Path: path, Err: err}
PathError(op, path, err) == Err("PathError", op, path, err.kind)

\* dirEntry{fileInfo{name, mode}}; IsDir() is mode.IsDir()
dirEntry(name, isDir) == [name |-> name, isDir |-> isDir]

Min(a, b) == IF a < b THEN a ELSE b

\* ------------------------------------------------------------------------
\* dir: the directory enumerator
\* ------------------------------------------------------------------------
\* The dir value stat() constructs: no marker (0), not done, nil buf, nil dirs.
NewDir(name) ==
  [name |-> name, marker |-> 0, done |-> FALSE, buf |-> <<>>, bufNil |-> TRUE,
   dirs |-> <<>>]

\* The enumerator together with the store's call counter i, the log of the
\* ListObjects calls issued so far, and the number k of ListObjects calls of
\* the running ReadDir call.
World(dd, i, log, k) == [d |-> dd, i |-> i, log |-> log, k |-> k]

\* errors.New("is a directory")
ErrIsDir == Err("is a directory", "", <<>>, "")

\* What dir.Read returns, and the dir value it leaves
DirReadOut(dd, n, err) == [d |-> dd, n |-> n, err |-> err]

\* A variant of dirRead that reports the end of a stream.
dirRead_ReportsEOF(dd) == DirReadOut(dd, 0, EOF)

\* dir.Read
dirRead(dd) == DirReadOut(dd, 0, PathError("read", dd.name, ErrIsDir))

\* One step of the insertion sort sort.Slice runs on slices shorter than 12:
\* x moves left while it is less than its left neighbour.
RECURSIVE InsertLeft(_, _)
InsertLeft(t, x) ==
  IF Len(t) > 0 /\ StrLess(x.name, t[Len(t)].name)
    THEN InsertLeft(SubSeq(t, 1, Len(t) - 1), x) \o <<t[Len(t)]>>
    ELSE t \o <<x>>

\* A variant of SortByName that leaves the slice in the order it has.
SortByName_KeepsOrder(s) == s

\* sort.Slice(buf, func(i, j) { return buf[i].Name() < buf[j].Name() })
SortByName(s) ==
  LET F[i \in 0..Len(s)] == IF i = 0 THEN <<>> ELSE InsertLeft(F[i - 1], s[i])
  IN F[Len(s)]

\* sort.Search(l, func(i) { return buf[i].Name() >= name }): binary search,
\* the 0-based index h is buf[h + 1] here.
RECURSIVE SearchFrom(_, _, _, _)
SearchFrom(i, j, buf, name) ==
  IF i < j
    THEN LET h == (i + j) \div 2
         IN IF ~StrGeq(buf[h + 1].name, name)
              THEN SearchFrom(h + 1, j, buf, name)
              ELSE SearchFrom(i, h, buf, name)
    ELSE i

Search(l, buf, name) == SearchFrom(0, l, buf, name)

\* A variant of KeepsPending that does not look at d.done.
KeepsPending_IgnoresDone(l, buf, de, done) == Search(l, buf, de) = l

\* The pending directory de stays pending: nothing buffered is >= de and
\* the listing is not exhausted.
KeepsPending(l, buf, de, done) == Search(l, buf, de) = l /\ ~done

\* The pending directories mergeDirFiles releases.
Released(dd) ==
  {de \in DOMAIN dd.dirs :
     ~dd.dirs[de] /\ ~KeepsPending(Len(dd.buf), dd.buf, de, dd.done)}

\* The released directories as entries, behind the entries already buffered.
Appended(buf, order) == buf \o [x \in 1..Len(order) |-> dirEntry(order[x], TRUE)]

\* A variant of Merged without the final sort.
Merged_NoSort(dd, released) ==
  [dd EXCEPT !.buf = Appended(dd.buf, SortedSeq(released)),
             !.bufNil = FALSE,
             !.dirs = [de \in DOMAIN dd.dirs |-> dd.dirs[de] \/ de \in released]]

\* A variant of Merged that leaves a nil buf nil.
Merged_KeepsNil(dd, released) ==
  [dd EXCEPT !.buf = SortByName(Appended(dd.buf, SortedSeq(released))),
             !.bufNil = dd.bufNil /\ released = {},
             !.dirs = [de \in DOMAIN dd.dirs |-> dd.dirs[de] \/ de \in released]]

\* The body of dir.mergeDirFiles for the set of released directories: a nil
\* buf becomes an empty one, the released directories are appended and marked
\* used, and buf is sorted.  The map d.dirs is iterated in an unspecified
\* order; the released directories have distinct names and are appended
\* behind the entries already buffered, so the sorted result is the same for
\* every iteration order.
Merged(dd, released) ==
  [dd EXCEPT !.buf = SortByName(Appended(dd.buf, SortedSeq(released))),
             !.bufNil = FALSE,
             !.dirs = [de \in DOMAIN dd.dirs |-> dd.dirs[de] \/ de \in released]]

\* dir.mergeDirFiles
mergeDirFiles(dd) == Merged(dd, Released(dd))

\* out.IsTruncated != nil && !(*out.IsTruncated)
DoneAfter(out) == out.IsTruncated # "nil" /\ ~(out.IsTruncated = "true")

\* The directory names of a page's common prefixes
PrefixNames(prefixes) == {Base(prefixes[x]) : x \in 1..Len(prefixes)}

\* A variant of AddDirs that records a listed prefix as pending even when
\* it is already known.
AddDirs_Overwrites(dirs, names) ==
  [de \in DOMAIN dirs \cup names |-> IF de \in names THEN FALSE ELSE dirs[de]]

\* Records the common prefixes of a page in d.dirs, unless already known.
AddDirs(dirs, names) ==
  [de \in DOMAIN dirs \cup names |-> IF de \in DOMAIN dirs THEN dirs[de] ELSE FALSE]

\* Appends the objects of a page to d.buf.
AddFiles(buf, contents) ==
  buf \o [x \in 1..Len(contents) |-> dirEntry(Base(contents[x]), FALSE)]

\* The assignments of dir.readNext for a page, before the merge.
Absorb(dd, out) ==
  [dd EXCEPT !.marker = out.NextMarker,
             !.done = DoneAfter(out),
             !.dirs = AddDirs(@, PrefixNames(out.CommonPrefixes)),
             !.buf = AddFiles(@, out.Contents),
             !.bufNil = @ /\ Len(out.Contents) = 0]

\* The ListObjects call of dir.readNext, noted in the log; a call that fails
\* is not served by the store.
Called(w, fails) ==
  [w EXCEPT !.i = IF fails THEN @ ELSE @ + 1,
            !.k = @ + 1,
            !.log = Append(@, [marker |-> w.d.marker, ok |-> ~fails])]

\* What readNext returns
Stepped(w, err) == [w |-> w, err |-> err]

SteppedTo(w, dd) == Stepped([w EXCEPT !.d = dd], IF dd.done THEN EOF ELSE NoErr)

\* A variant of readNextOut that empties d.buf when the call fails.
readNextOut_DropsBufferOnFailure(w, out, fails) ==
  IF fails THEN Stepped([Called(w, TRUE) EXCEPT !.d.buf = <<>>], BackendErr)
  ELSE IF w.d.name # RootName /\ Len(out.CommonPrefixes) + Len(out.Contents) = 0
    THEN Stepped(Called(w, FALSE),
                 PathError("readdir", TrimSuffixSlash(ListPrefix(w.d.name)), ErrNotExist))
  ELSE SteppedTo(Called(w, FALSE), mergeDirFiles(Absorb(w.d, out)))

\* dir.readNext after its ListObjects call: out is the page; fails says that
\* the call failed in the store.
readNextOut(w, out, fails) ==
  IF fails THEN Stepped(Called(w, TRUE), BackendErr)
  ELSE IF w.d.name # RootName /\ Len(out.CommonPrefixes) + Len(out.Contents) = 0
    THEN Stepped(Called(w, FALSE),
                 PathError("readdir", TrimSuffixSlash(ListPrefix(w.d.name)), ErrNotExist))
  ELSE SteppedTo(Called(w, FALSE), mergeDirFiles(Absorb(w.d, out)))

\* A variant of readNext that calls the store also when d.done is set.
readNext_IgnoresDone(w, script, failAt) ==
  readNextOut(w, ListObjects(script, w.d.marker, w.i), w.k + 1 = failAt)

\* dir.readNext.  failAt > 0 makes the failAt-th ListObjects call of the
\* running ReadDir call fail in the store.
readNext(w, script, failAt) ==
  IF w.d.done THEN Stepped(w, EOF)
  ELSE readNextOut(w, ListObjects(script, w.d.marker, w.i), w.k + 1 = failAt)

RECURSIVE readAll(_, _, _)

\* The switch of dir.readAll on the error r of readNext
readAllOn(r, script, failAt) ==
  IF r.err = NoErr THEN readAll(r.w, script, failAt)
  ELSE IF r.err = EOF THEN Stepped(r.w, NoErr)
  ELSE r

\* dir.readAll
readAll(w, script, failAt) ==
  IF ~w.d.done THEN readAllOn(readNext(w, script, failAt), script, failAt)
  ELSE Stepped(w, EOF)

RECURSIVE readLoop(_, _, _, _)

\* The switch of the loop of dir.ReadDir on the error r of readNext: io.EOF
\* leaves the loop.
readLoopOn(r, n, script, failAt) ==
  IF r.err = NoErr THEN readLoop(r.w, n, script, failAt)
  ELSE IF r.err = EOF THEN Stepped(r.w, NoErr)
  ELSE r

\* A variant of readLoop that fetches also when n entries are buffered.
readLoop_FetchesAtN(w, n, script, failAt) ==
  IF Len(w.d.buf) <= n THEN readLoopOn(readNext(w, script, failAt), n, script, failAt)
  ELSE Stepped(w, NoErr)

\* The loop of dir.ReadDir for n > 0: fetches pages while fewer than n
\* entries are buffered.
readLoop(w, n, script, failAt) ==
  IF Len(w.d.buf) < n THEN readLoopOn(readNext(w, script, failAt), n, script, failAt)
  ELSE Stepped(w, NoErr)

\* A variant of EofAfter that ignores what is still buffered.
EofAfter_IgnoresBuffer(done, rest) == done

\* if d.done && len(d.buf) == 0 { err = io.EOF }
EofAfter(done, rest) == done /\ Len(rest) = 0

\* The result of a ReadDir call: the batch, whether it is a nil slice, and
\* the error.
Result(w, des, desNil, err) == [w |-> w, des |-> des, desNil |-> desNil, err |-> err]

\* dir.ReadDir(n <= 0) after readAll returned r
Drained(r) ==
  IF r.err = NoErr
    THEN Result([r.w EXCEPT !.d.buf = <<>>, !.d.bufNil = TRUE],
                r.w.d.buf, r.w.d.bufNil, NoErr)
  ELSE IF r.err = EOF THEN Result(r.w, <<>>, FALSE, NoErr)
  ELSE Result(r.w, <<>>, TRUE, r.err)

\* A variant of Cut that leaves the last entry of the batch in d.buf.
Cut_KeepsLast(w, offset) ==
  Result([w EXCEPT !.d.buf = IF offset = 0 THEN @ ELSE SubSeq(@, offset, Len(@))],
         SubSeq(w.d.buf, 1, offset), w.d.bufNil,
         IF EofAfter(w.d.done, SubSeq(w.d.buf, offset + 1, Len(w.d.buf)))
           THEN EOF ELSE NoErr)

\* des, d.buf = d.buf[:offset:offset], d.buf[offset:], and the error
Cut(w, offset) ==
  Result([w EXCEPT !.d.buf = SubSeq(@, offset + 1, Len(@))],
         SubSeq(w.d.buf, 1, offset), w.d.bufNil,
         IF EofAfter(w.d.done, SubSeq(w.d.buf, offset + 1, Len(w.d.buf)))
           THEN EOF ELSE NoErr)

\* dir.ReadDir(n > 0) after its loop returned r
Chunked(r, n) ==
  IF r.err # NoErr THEN Result(r.w, <<>>, TRUE, r.err)
  ELSE Cut(r.w, Min(n, Len(r.w.d.buf)))

\* dir.ReadDir(n)
dirReadDir(w, n, script, failAt) ==
  IF n <= 0
    THEN Drained(readAll([w EXCEPT !.k = 0], script, failAt))
    ELSE Chunked(readLoop([w EXCEPT !.k = 0], n, script, failAt), n)

\* ------------------------------------------------------------------------
\* S3FS: the facade
\* ------------------------------------------------------------------------
\* A call to the store, as the facade issues it
StoreCall(api, key, maxKeys) == [api |-> api, key |-> key, maxKeys |-> maxKeys]

\* The first m items of a listing as a page
FirstItems(L, m) ==
  Page(SelectKeys(L, 1, m, TRUE), SelectKeys(L, 1, m, FALSE),
       IF m < Len(L) THEN "true" ELSE "false", 0)

FirstOf(L, maxKeys) == FirstItems(L, Min(maxKeys, Len(L)))

\* s3.ListObjectsV2 with Delimiter "/" and MaxKeys: the first maxKeys items
\* of the listing under the prefix.
ListObjectsV2(K, prefix, maxKeys) == FirstOf(Listing(K, prefix), maxKeys)

\* A variant of StatProbe that does not bound the listing.
StatProbe_Unbounded(name) == StoreCall("ListObjectsV2", name \o <<SLASH>>, 1000)

\* The listing call of stat: Prefix name + "/", MaxKeys 1
StatProbe(name) == StoreCall("ListObjectsV2", name \o <<SLASH>>, 1)

Answer(K, call) == ListObjectsV2(K, call.key, call.maxKeys)

\* What stat returns: a *fileInfo, a *dir, or nothing with an error
NoInfo == [kind |-> "none", name |-> <<>>]
FileInfo(name) == [kind |-> "file", name |-> name]
DirInfo(name) == [kind |-> "dir", name |-> name]

StatResult(fi, err, calls) == [fi |-> fi, err |-> err, calls |-> calls]

\* stat after its ListObjectsV2 call returned out
statListed(name, out, calls, fails) ==
  IF fails THEN StatResult(NoInfo, BackendErr, calls)
  ELSE IF Len(out.CommonPrefixes) > 0 \/ Len(out.Contents) > 0
    THEN StatResult(DirInfo(name), NoErr, calls)
  ELSE StatResult(NoInfo, ErrNotExist, calls)

\* stat after its HeadObject call: found says that the object exists
statHead(K, name, found, calls, failAt) ==
  IF Len(calls) = failAt THEN StatResult(NoInfo, BackendErr, calls)
  ELSE IF found THEN StatResult(FileInfo(name), NoErr, calls)
  ELSE statListed(name, Answer(K, StatProbe(name)), Append(calls, StatProbe(name)),
                  Len(calls) + 1 = failAt)

\* stat(s3cl, bucket, name).  calls are the store calls the running facade
\* operation has issued; the failAt-th of them fails in the store with an
\* error that is not a not-found code.
stat(K, name, calls, failAt) ==
  IF ~ValidPath(name) THEN StatResult(NoInfo, ErrInvalid, calls)
  ELSE IF name = RootName THEN StatResult(DirInfo(RootName), NoErr, calls)
  ELSE statHead(K, name, name \in K, Append(calls, StoreCall("HeadObject", name, 0)),
                failAt)

\* A variant of OnlyDir that hands on whatever stat returns.
OnlyDir_AnyInfo(r) == r

\* openDir after stat returned r: only a *dir is an fs.ReadDirFile.
OnlyDir(r) ==
  IF r.err # NoErr THEN r
  ELSE IF r.fi.kind = "dir" THEN r
  ELSE StatResult(NoInfo, errNotDir, r.calls)

\* openDir(s3cl, bucket, name)
openDir(K, name, calls, failAt) == OnlyDir(stat(K, name, calls, failAt))

\* What a facade operation returns
FsResult(op, path, kind, name, err, calls, des, desNil) ==
  [op |-> op, path |-> path, kind |-> kind, name |-> name, err |-> err,
   calls |-> calls, des |-> des, desNil |-> desNil, storeFailed |-> FALSE]

\* Notes on a result whether one of its store calls failed in the store.
Noting(r, failAt) == [r EXCEPT !.storeFailed = failAt \in 1..Len(r.calls)]

NoFsRet == FsResult("", <<>>, "none", <<>>, NoErr, <<>>, <<>>, TRUE)

\* A variant of OpenFallsToNotExist that knows errNotDir only.
OpenFallsToNotExist_NotDirOnly(err) == err.kind = "errNotDir"

\* isNotFoundErr(err) || errors.Is(err, errNotDir) || errors.Is(err, fs.ErrNotExist)
\* for the errors openDir can return
OpenFallsToNotExist(err) == err.kind \in {"errNotDir", "ErrNotExist"}

\* S3FS.Open(".") after openDir returned r
OpenedRoot(name, r) ==
  FsResult("open", name, IF r.err = NoErr THEN "dir" ELSE "err",
           r.fi.name, r.err, r.calls, <<>>, TRUE)

\* The switch of S3FS.Open on what openDir returned after a not-found
\* GetObject
OpenFallback(name, r) ==
  IF r.err = NoErr
    THEN FsResult("open", name, "dir", r.fi.name, NoErr, r.calls, <<>>, TRUE)
  ELSE IF ~OpenFallsToNotExist(r.err)
    THEN FsResult("open", name, "err", <<>>, r.err, r.calls, <<>>, TRUE)
  ELSE FsResult("open", name, "err", <<>>, PathError("open", name, ErrNotExist),
                r.calls, <<>>, TRUE)

\* S3FS.Open after its GetObject call
OpenGot(K, name, calls, failAt) ==
  IF Len(calls) = failAt
    THEN FsResult("open", name, "err", <<>>, PathError("open", name, BackendErr),
                  calls, <<>>, TRUE)
  ELSE IF name \in K
    THEN FsResult("open", name, "file", name, NoErr, calls, <<>>, TRUE)
  ELSE OpenFallback(name, openDir(K, name, calls, failAt))

\* S3FS.Open(name)
S3FSOpen(K, name, failAt) ==
  IF ~ValidPath(name)
    THEN FsResult("open", name, "err", <<>>, PathError("open", name, ErrInvalid),
                  <<>>, <<>>, TRUE)
  ELSE IF name = RootName THEN OpenedRoot(name, openDir(K, name, <<>>, failAt))
  ELSE OpenGot(K, name, <<StoreCall("GetObject", name, 0)>>, failAt)

\* The switch of S3FS.Stat on what stat returned
StatDone(name, r) ==
  IF r.err # NoErr
    THEN FsResult("stat", name, "err", <<>>, PathError("stat", name, r.err),
                  r.calls, <<>>, TRUE)
    ELSE FsResult("stat", name, r.fi.kind, r.fi.name, NoErr, r.calls, <<>>, TRUE)

\* S3FS.Stat(name)
S3FSStat(K, name, failAt) == StatDone(name, stat(K, name, <<>>, failAt))

\* The ListObjects calls of a drain, as store calls
ListCalls(prefix, log) ==
  [x \in 1..Len(log) |-> StoreCall("ListObjects", prefix, 0)]

\* A variant of ReadDirFailed that returns the error of openDir as it is.
ReadDirFailed_Unwrapped(name, r) ==
  FsResult("readdir", name, "err", <<>>, r.err, r.calls, <<>>, TRUE)

\* S3FS.ReadDir when openDir fails
ReadDirFailed(name, r) ==
  FsResult("readdir", name, "err", <<>>, PathError("readdir", name, r.err),
           r.calls, <<>>, TRUE)

\* S3FS.ReadDir when d.ReadDir(-1) returned x
ReadDirDrained(name, r, x) ==
  FsResult("readdir", name, IF x.err = NoErr THEN "entries" ELSE "err",
           r.fi.name, x.err, r.calls \o ListCalls(ListPrefix(r.fi.name), x.w.log),
           x.des, x.desNil)

\* S3FS.ReadDir after openDir returned r; sc is how the store pages the
\* listing.
ReadDirOpened(name, r, sc, failAt) ==
  IF r.err # NoErr THEN ReadDirFailed(name, r)
  ELSE ReadDirDrained(name, r,
         dirReadDir(World(NewDir(r.fi.name), 0, <<>>, 0), -1, sc,
                    IF failAt > Len(r.calls) THEN failAt - Len(r.calls) ELSE 0))

\* S3FS.ReadDir(name): openDir, then d.ReadDir(-1) on the fresh dir.
S3FSReadDir(K, name, sc, failAt) ==
  ReadDirOpened(name, openDir(K, name, <<>>, failAt), sc, failAt)

\* ------------------------------------------------------------------------
\* file: the file handle
\* ------------------------------------------------------------------------
ChE == 101
ChN == 110
ChO == 111

Content == <<ChC, ChO, ChN, ChT, ChE, ChN, ChT>>   \* "content"
Con == <<ChC, ChO, ChN>>                           \* "con"
Tent == <<ChT, ChE, ChN, ChT>>                     \* "tent"

\* The key of the object behind the handle
FileKey == KeyATxt

\* io.SeekStart, io.SeekCurrent, io.SeekEnd
SeekStart == 0
SeekCurrent == 1
SeekEnd == 2

ErrWhence == Err("invalid whence", "", <<>>, "")       \* "s3fs.file.Seek: invalid whence"
ErrNegative == Err("negative position", "", <<>>, "")  \* "... seeked to a negative position"
ErrNoETag == Err("no etag", "", <<>>, "")              \* "... remote file has no etag"
\* fmt.Errorf("s3fs.file.Seek: file has changed while seeking: %w", fs.ErrNotExist)
ErrChanged == Err("file has changed", "", <<>>, "ErrNotExist")
PreconditionFailed == Err("412", "", <<>>, "")         \* http.StatusPreconditionFailed
ErrCloseFailed == Err("close", "", <<>>, "")           \* what Close of the body returned
ErrBodyClosed == Err("read on closed body", "", <<>>, "")

\* An object version in the store: its bytes and its ETag ("" when the store
\* hands out no validator).
Object(content, eTag) == [content |-> content, eTag |-> eTag, next |-> eTag]

\* A byte stream: the body of a GetObject response that carries data, of
\* which pos bytes have been read; or eofReader; or a body that was closed.
Body(data, pos) == [kind |-> "body", data |-> data, pos |-> pos]
eofReader == [kind |-> "eof", data |-> <<>>, pos |-> 0]
ClosedBody(body) == [body EXCEPT !.kind = IF @ = "body" THEN "closed" ELSE @]

\* What Read of a stream returns
ReadOut(body, n, bytes, err) == [body |-> body, n |-> n, bytes |-> bytes, err |-> err]

\* Read(p) of the body with len(p) = len: as many bytes as fit and remain;
\* io.EOF when none remain.
bodyRead(body, len) ==
  IF body.pos >= Len(body.data) THEN ReadOut(body, 0, <<>>, EOF)
  ELSE ReadOut([body EXCEPT !.pos = @ + Min(len, Len(body.data) - body.pos)],
               Min(len, Len(body.data) - body.pos),
               SubSeq(body.data, body.pos + 1,
                      body.pos + Min(len, Len(body.data) - body.pos)),
               NoErr)

\* f.ReadCloser.Read(p)
streamRead(body, len) ==
  IF body.kind = "eof" THEN ReadOut(body, 0, <<>>, EOF)
  ELSE IF body.kind = "closed" THEN ReadOut(body, 0, <<>>, ErrBodyClosed)
  ELSE bodyRead(body, len)

\* What s3.GetObject returns
GetOut(body, err) == [body |-> body, err |-> err]

\* s3.GetObject with Range "bytes=start-" and IfMatch: fails says that the
\* call fails in the store with an error that is not a 412.
GetObject(object, start, ifMatch, fails) ==
  IF fails THEN GetOut(eofReader, BackendErr)
  ELSE IF ifMatch # object.eTag THEN GetOut(eofReader, PreconditionFailed)
  ELSE GetOut(Body(SubSeq(object.content, start + 1, Len(object.content)), 0), NoErr)

\* The handle openFile returns for the object: cached says that the
\* GetObject output carried ContentLength and LastModified, so that
\* getStatFunc keeps the fileInfo instead of asking the store.
openFile(object, cached) ==
  [offset |-> 0, eTag |-> object.eTag, cached |-> cached,
   size |-> IF cached THEN Len(object.content) ELSE 0,
   body |-> Body(object.content, 0)]

\* What f.Stat() returns to Seek: the size, the error and the store calls
StatOut(size, err, calls) == [size |-> size, err |-> err, calls |-> calls]

\* The stat function of getStatFunc that asks the store
statAsked(object, r) == StatOut(Len(object.content), r.err, r.calls)

\* f.Stat(): the fileInfo kept at open, or stat(cl, bucket, name)
fileStat(f, object, fails) ==
  IF f.cached THEN StatOut(f.size, NoErr, <<>>)
  ELSE statAsked(object, stat({FileKey}, FileKey, <<>>, IF fails THEN 1 ELSE 0))

\* What file.Read returns
FileReadOut(f, n, bytes, err) == [f |-> f, n |-> n, bytes |-> bytes, err |-> err]

\* A variant of fileReadDone that leaves f.offset alone.
fileReadDone_KeepsOffset(f, r) ==
  FileReadOut([f EXCEPT !.body = r.body], r.n, r.bytes, r.err)

\* file.Read after the stream returned r: f.offset += int64(n)
fileReadDone(f, r) ==
  FileReadOut([f EXCEPT !.offset = @ + r.n, !.body = r.body], r.n, r.bytes, r.err)

\* file.Read(p) with len(p) = len
fileRead(f, len) == fileReadDone(f, streamRead(f.body, len))

\* What file.Seek returns
SeekOut(f, off, err, calls) == [f |-> f, off |-> off, err |-> err, calls |-> calls]

\* file.Seek after its GetObject call returned out
seekFetched(f, newOffset, out, calls) ==
  IF out.err = PreconditionFailed THEN SeekOut(f, 0, ErrChanged, calls)
  ELSE IF out.err # NoErr THEN SeekOut(f, 0, out.err, calls)
  ELSE SeekOut([f EXCEPT !.offset = newOffset, !.body = out.body], newOffset, NoErr, calls)

\* A variant of seekClosed that fetches without If-Match.
seekClosed_Unconditional(f, newOffset, size, object, calls, fault) ==
  IF fault = "close" THEN SeekOut(f, f.offset, ErrCloseFailed, calls)
  ELSE IF newOffset >= size
    THEN SeekOut([f EXCEPT !.body = eofReader, !.offset = newOffset], newOffset, NoErr, calls)
  ELSE seekFetched(f, newOffset, GetObject(object, newOffset, object.eTag, fault = "get"),
                   Append(calls, StoreCall("GetObject", FileKey, 0)))

\* file.Seek after f.Close(): at or beyond the size the stream becomes
\* eofReader, below it the object is fetched from newOffset on, If-Match the
\* ETag of the handle.
seekClosed(f, newOffset, size, object, calls, fault) ==
  IF fault = "close" THEN SeekOut(f, f.offset, ErrCloseFailed, calls)
  ELSE IF newOffset >= size
    THEN SeekOut([f EXCEPT !.body = eofReader, !.offset = newOffset], newOffset, NoErr, calls)
  ELSE seekFetched(f, newOffset, GetObject(object, newOffset, f.eTag, fault = "get"),
                   Append(calls, StoreCall("GetObject", FileKey, 0)))

\* file.Seek once newOffset is computed
seekTo(f, newOffset, size, object, calls, fault) ==
  IF f.offset = newOffset THEN SeekOut(f, newOffset, NoErr, calls)
  ELSE IF newOffset < 0 THEN SeekOut(f, 0, ErrNegative, calls)
  ELSE IF f.eTag = "" THEN SeekOut(f, 0, ErrNoETag, calls)
  ELSE seekClosed([f EXCEPT !.body = ClosedBody(@)], newOffset, size, object, calls, fault)

\* The switch of file.Seek on whence
newOffset(f, offset, whence, size) ==
  IF whence = SeekStart THEN offset
  ELSE IF whence = SeekCurrent THEN f.offset + offset
  ELSE size + offset

\* A variant of seekStatted that takes any whence for io.SeekEnd.
seekStatted_AnyWhence(f, offset, whence, st, object, fault) ==
  IF st.err # NoErr THEN SeekOut(f, 0, st.err, st.calls)
  ELSE seekTo(f, newOffset(f, offset, whence, st.size), st.size, object, st.calls, fault)

\* file.Seek after f.Stat() returned st
seekStatted(f, offset, whence, st, object, fault) ==
  IF st.err # NoErr THEN SeekOut(f, 0, st.err, st.calls)
  ELSE IF whence \notin {SeekStart, SeekCurrent, SeekEnd}
    THEN SeekOut(f, 0, ErrWhence, st.calls)
  ELSE seekTo(f, newOffset(f, offset, whence, st.size), st.size, object, st.calls, fault)

\* file.Seek(offset, whence).  fault names the step that fails: "stat" the
\* HeadObject call of f.Stat(), "close" the Close of the stream, "get" the
\* GetObject call; "none" lets every step succeed.
fileSeek(f, offset, whence, object, fault) ==
  seekStatted(f, offset, whence, fileStat(f, object, fault = "stat"), object, fault)

\* bytes.Reader, the in-memory reader the tests compare the handle with
NewReader(b) == [s |-> b, i |-> 0]

RefOut(r, n, bytes, off, err) == [r |-> r, n |-> n, bytes |-> bytes, off |-> off, err |-> err]

\* bytes.Reader.Read
readerRead(r, len) ==
  IF r.i >= Len(r.s) THEN RefOut(r, 0, <<>>, 0, EOF)
  ELSE RefOut([r EXCEPT !.i = @ + Min(len, Len(r.s) - r.i)],
              Min(len, Len(r.s) - r.i),
              SubSeq(r.s, r.i + 1, r.i + Min(len, Len(r.s) - r.i)), 0, NoErr)

readerSeekTo(r, abs) ==
  IF abs < 0 THEN RefOut(r, 0, <<>>, 0, ErrNegative)
  ELSE RefOut([r EXCEPT !.i = abs], 0, <<>>, abs, NoErr)

\* bytes.Reader.Seek
readerSeek(r, offset, whence) ==
  IF whence = SeekStart THEN readerSeekTo(r, offset)
  ELSE IF whence = SeekCurrent THEN readerSeekTo(r, r.i + offset)
  ELSE IF whence = SeekEnd THEN readerSeekTo(r, Len(r.s) + offset)
  ELSE RefOut(r, 0, <<>>, 0, ErrWhence)

\* ------------------------------------------------------------------------
\* State
\* ------------------------------------------------------------------------
VARIABLES
  store,    \* the keys of the bucket
  script,   \* how the store pages the listing of the enumerated directory
  d,        \* the dir value: name, marker, done, buf, dirs
  srvI,     \* mockClient.i: the ListObjects calls the store has served
  listLog,  \* the ListObjects calls issued by the enumerator, in order
  ret,      \* what the last dir.ReadDir call returned
  hist,     \* the entries returned by all dir.ReadDir calls, concatenated
  ns,       \* the arguments n of the dir.ReadDir calls made so far
  failed,   \* the number of ListObjects calls that failed in the store
  fsRet,    \* what the last call of S3FS.Open, Stat or ReadDir returned
  object,   \* the object behind the file handle, as the store holds it now
  f,        \* the file value: offset, eTag, stat, ReadCloser
  reader,   \* a bytes.Reader over the bytes of the object that was opened
  fileRet,  \* what the last call of file.Read or file.Seek returned
  clean,    \* no call on the handle has failed and the object is unchanged
  dirReadRet, \* what the last call of dir.Read returned
  run,      \* the dir.ReadDir call that is running step by step, if any
  pair      \* two further enumerators of one directory, and the order of their calls

dirVars == <<script, d, srvI, listLog, ret, hist, ns, failed>>

fileVars == <<object, f, reader, fileRet, clean>>

\* What Read or Seek returned to the caller: got by the handle, want by the
\* bytes.Reader; before is the handle and stored the object in the store when
\* the call was made.
FileRet(op, offset, whence, len, fault, before, stored, got, want, calls) ==
  [op |-> op, offset |-> offset, whence |-> whence, len |-> len, fault |-> fault,
   before |-> before, stored |-> stored, got |-> got, want |-> want, calls |-> calls]

Got(n, bytes, off, err) == [n |-> n, bytes |-> bytes, off |-> off, err |-> err]

NoFileRet ==
  FileRet("", 0, 0, 0, "none", openFile(Object(<<>>, ""), TRUE), Object(<<>>, ""),
          Got(0, <<>>, 0, NoErr), Got(0, <<>>, 0, NoErr), <<>>)

NoDirRead == [n |-> 0, err |-> NoErr]

\* A running dir.ReadDir(n) that has issued k ListObjects calls; no call is
\* running.
Running(n, k) == [pc |-> "loop", n |-> n, k |-> k]
Idle == [pc |-> "idle", n |-> 0, k |-> 0]

\* A *dir as stat returns it, with the ListObjects calls it has issued, the
\* arguments of the ReadDir calls made on it and what they returned
Handle(dd, log, calls, batches) ==
  [d |-> dd, log |-> log, ns |-> calls, batches |-> batches]

FreshHandle(name) == Handle(NewDir(name), <<>>, <<>>, <<>>)

Handles == {1, 2}

\* Two enumerators that separate calls of stat returned for one name
PairOf(name) == [hs |-> [h \in Handles |-> FreshHandle(name)], order |-> <<>>]

NoPair == PairOf(RootName)

\* No file is open.
NoFile ==
  /\ object = Object(<<>>, "")
  /\ f = openFile(Object(<<>>, ""), TRUE)
  /\ reader = NewReader(<<>>)
  /\ fileRet = NoFileRet
  /\ clean = TRUE

\* Bounds of the exploration
MaxCalls == 4
MaxFailures == 1
MaxFailAt == 2

\* The arguments of dir.ReadDir that are tried
NVals == {-1, 0, 1, 2}

\* The directories that are enumerated: the root and "a"
DirNames == {RootName, KeyA}

NoRet == [des |-> <<>>, desNil |-> TRUE, err |-> NoErr, n |-> 0, k |-> 0]

InitDir ==
  /\ store \in SUBSET Keys
  /\ \E name \in DirNames :
       /\ script \in Scripts(store, name)
       /\ d = NewDir(name)
  /\ srvI = 0
  /\ listLog = <<>>
  /\ ret = NoRet
  /\ hist = <<>>
  /\ ns = <<>>
  /\ failed = 0
  /\ fsRet = NoFsRet
  /\ run = Idle
  /\ pair = NoPair
  /\ NoFile
  /\ dirReadRet = NoDirRead

\* The enumerator and the caller after dir.ReadDir(n) returned r
Returned(r, n) ==
  /\ d' = r.w.d
  /\ srvI' = r.w.i
  /\ listLog' = r.w.log
  /\ ret' = [des |-> r.des, desNil |-> r.desNil, err |-> r.err, n |-> n, k |-> r.w.k]
  /\ hist' = hist \o r.des
  /\ ns' = Append(ns, n)
  /\ failed' = IF r.err = BackendErr THEN failed + 1 ELSE failed

\* A call of dir.ReadDir(n) on the enumerator
ReadDir(n, failAt) ==
  /\ Len(ns) < MaxCalls
  /\ failAt > 0 => script.style = "s3" /\ failed < MaxFailures
  /\ Returned(dirReadDir(World(d, srvI, listLog, 0), n, script, failAt), n)
  /\ UNCHANGED <<store, pair, run, script, fsRet, fileVars, dirReadRet>>

NextDir == \E n \in NVals, failAt \in 0..MaxFailAt : ReadDir(n, failAt)

vars == <<store, dirVars, fsRet, fileVars, dirReadRet, run, pair>>

Spec == InitDir /\ [][NextDir]_vars

\* The enumerator and the caller after dir.Read returned r
DirReadReturned(r) ==
  /\ d' = r.d
  /\ dirReadRet' = [n |-> r.n, err |-> r.err]

\* A call of dir.Read on the enumerator
DirRead ==
  /\ DirReadReturned(dirRead(d))
  /\ UNCHANGED <<store, pair, run, script, srvI, listLog, ret, hist, ns, failed, fsRet, fileVars>>

\* The directory handle with its byte reads and its ReadDir calls
NextHandle ==
  \/ \E n \in NVals : ReadDir(n, 0)
  \/ DirRead

SpecHandle == InitDir /\ [][NextHandle]_vars

\* ------------------------------------------------------------------------
\* dir.ReadDir step by step: one action for each turn of its loop
\* ------------------------------------------------------------------------
\* The ReadDir calls made step by step
MaxLoopCalls == 2

\* The condition of the loop of readAll (n <= 0) and of ReadDir (n > 0)
LoopRuns(n, dd) == IF n <= 0 THEN ~dd.done ELSE Len(dd.buf) < n

\* A variant of LoopGoesOn that goes on after an error of the store.
LoopGoesOn_Retries(err) == err = NoErr \/ err = BackendErr

\* The switch on the error of readNext: case err == nil: continue
LoopGoesOn(err) == err = NoErr

\* What the loop hands on when it is left: io.EOF of readNext ends it
\* without an error, another error is returned.
LoopLeft(r) == IF r.err = EOF THEN Stepped(r.w, NoErr) ELSE r

\* What dir.ReadDir(n) returns once its loop is left with r
Finish(r, n) == IF n <= 0 THEN Drained(r) ELSE Chunked(r, n)

\* The enumerator and the running call after readNext returned r
Fetched(r) ==
  IF LoopGoesOn(r.err)
    THEN /\ d' = r.w.d
         /\ srvI' = r.w.i
         /\ listLog' = r.w.log
         /\ run' = Running(run.n, r.w.k)
         /\ failed' = IF r.err = BackendErr THEN failed + 1 ELSE failed
         /\ UNCHANGED <<ret, hist, ns>>
    ELSE /\ Returned(Finish(LoopLeft(r), run.n), run.n)
         /\ run' = Idle

\* dir.ReadDir(n) is called.
Call(n) ==
  /\ run.pc = "idle"
  /\ Len(ns) < MaxLoopCalls
  /\ run' = Running(n, 0)
  /\ UNCHANGED <<store, pair, dirVars, fsRet, fileVars, dirReadRet>>

\* One turn of the loop: readNext; fails makes its ListObjects call fail in
\* the store.
Fetch(fails) ==
  /\ run.pc = "loop"
  /\ LoopRuns(run.n, d)
  /\ fails => script.style = "s3" /\ failed < MaxFailures /\ ~d.done
  /\ Fetched(readNext(World(d, srvI, listLog, run.k), script,
                      IF fails THEN run.k + 1 ELSE 0))
  /\ UNCHANGED <<store, pair, script, fsRet, fileVars, dirReadRet>>

\* The condition of the loop is false: readAll returns io.EOF, the loop of
\* ReadDir(n > 0) ends.
Leave ==
  /\ run.pc = "loop"
  /\ ~LoopRuns(run.n, d)
  /\ Returned(Finish(Stepped(World(d, srvI, listLog, run.k),
                             IF run.n <= 0 THEN EOF ELSE NoErr), run.n), run.n)
  /\ run' = Idle
  /\ UNCHANGED <<store, pair, script, fsRet, fileVars, dirReadRet>>

LoopStep == (\E fails \in BOOLEAN : Fetch(fails)) \/ Leave

NextLoop == (\E n \in NVals : Call(n)) \/ LoopStep

\* A turn of the loop of the running call is over: the call has returned or
\* has issued one more ListObjects call.  These are the steps of LoopStep.
Turn ==
  /\ run.pc = "loop"
  /\ run' \in {Idle, Running(run.n, run.k + 1)}

\* Every ListObjects call returns and the running call goes on: a call that
\* is in its loop gets through the turn.
SpecLoop == InitDir /\ [][NextLoop]_vars /\ WF_run(Turn)

\* ------------------------------------------------------------------------
\* Two enumerators of one directory
\* ------------------------------------------------------------------------
\* The ReadDir calls made on the two enumerators together
MaxPairCalls == 4

\* The keys of the stores the two enumerators list, and the arguments of
\* their ReadDir calls
PairKeys == {KeyATxt, KeyABTxt, KeyBCTxt}
PairNVals == {-1, 1}

\* Both enumerators list the same directory of a store that answers by
\* marker; the client, and with it the count of the calls served, is shared.
InitPair ==
  /\ store \in SUBSET PairKeys
  /\ \E name \in DirNames :
       /\ script \in {x \in Scripts(store, name) : x.style = "s3"}
       /\ d = NewDir(name)
       /\ pair = PairOf(name)
  /\ srvI = 0
  /\ listLog = <<>>
  /\ ret = NoRet
  /\ hist = <<>>
  /\ ns = <<>>
  /\ failed = 0
  /\ fsRet = NoFsRet
  /\ run = Idle
  /\ NoFile
  /\ dirReadRet = NoDirRead

\* What a ReadDir call returned
Batch(r) == [des |-> r.des, err |-> r.err]

\* The enumerator h and the store's counter after ReadDir(n) on h returned r
PairReturned(h, n, r) ==
  /\ pair' = [pair EXCEPT !.hs[h] = Handle(r.w.d, r.w.log, Append(@.ns, n),
                                           Append(@.batches, Batch(r))),
                          !.order = Append(@, h)]
  /\ srvI' = r.w.i

\* A call of dir.ReadDir(n) on the enumerator h
PairReadDir(h, n) ==
  /\ Len(pair.order) < MaxPairCalls
  /\ PairReturned(h, n, dirReadDir(World(pair.hs[h].d, srvI, pair.hs[h].log, 0),
                                   n, script, 0))
  /\ UNCHANGED <<store, run, script, d, listLog, ret, hist, ns, failed, fsRet,
                 fileVars, dirReadRet>>

NextPair == \E h \in Handles, n \in PairNVals : PairReadDir(h, n)

SpecPair == InitPair /\ [][NextPair]_vars

\* ------------------------------------------------------------------------
\* The facade over a bucket
\* ------------------------------------------------------------------------
KeyAC == <<ChA, SLASH, ChC>>                               \* "a/c"
KeyB == <<ChB>>                                            \* "b"
KeyC == <<ChC>>                                            \* "c"
BadAbs == <<SLASH>>                                        \* "/"
BadTrail == <<ChA, SLASH>>                                 \* "a/"
BadDot == <<DOT, SLASH, ChA>>                              \* "./a"

\* The paths given to the facade
FsPaths == {RootName, KeyA, KeyATxt, KeyABTxt, KeyAC, KeyB, KeyC,
            BadAbs, BadTrail, BadDot}

\* The store calls of one facade operation that may fail: none (0) or the
\* first, second, ...
MaxFsFailAt == 3

InitFS ==
  /\ store \in SUBSET Keys
  /\ script = [style |-> "s3", pages |-> <<FinalEmptyPage>>, dup |-> FALSE]
  /\ d = NewDir(RootName)
  /\ srvI = 0
  /\ listLog = <<>>
  /\ ret = NoRet
  /\ hist = <<>>
  /\ ns = <<>>
  /\ failed = 0
  /\ fsRet = NoFsRet
  /\ run = Idle
  /\ pair = NoPair
  /\ NoFile
  /\ dirReadRet = NoDirRead

Open(name, failAt) ==
  /\ fsRet' = Noting(S3FSOpen(store, name, failAt), failAt)
  /\ UNCHANGED <<store, pair, run, dirVars, fileVars, dirReadRet>>

Stat(name, failAt) ==
  /\ fsRet' = Noting(S3FSStat(store, name, failAt), failAt)
  /\ UNCHANGED <<store, pair, run, dirVars, fileVars, dirReadRet>>

FSReadDir(name, failAt) ==
  /\ \E sc \in {x \in Scripts(store, name) : x.style = "s3"} :
        fsRet' = Noting(S3FSReadDir(store, name, sc, failAt), failAt)
  /\ UNCHANGED <<store, pair, run, dirVars, fileVars, dirReadRet>>

NextFS ==
  \E name \in FsPaths, failAt \in 0..MaxFsFailAt :
    \/ Open(name, failAt)
    \/ Stat(name, failAt)
    \/ FSReadDir(name, failAt)

SpecFS == InitFS /\ [][NextFS]_vars

\* ------------------------------------------------------------------------
\* A file handle over an object
\* ------------------------------------------------------------------------
\* The largest offset the handle is moved to
MaxOffset == 9

\* The bytes of the object that is opened, and of the one that replaces it
Contents == {Content, Con}
Replacement == Tent

\* The ETags of the object that is opened and of the one that replaces it; a
\* store without validators gives "" for both.
ETags == {<<"etag1", "etag2">>, <<"", "">>}

\* The arguments of file.Read and file.Seek that are tried
ReadLens == {0, 1, 3, 10}
SeekOffsets == {-3, -1, 0, 1, 2, 5}
Whences == {SeekStart, SeekCurrent, SeekEnd, 3}
Faults == {"none", "stat", "close", "get"}

\* The handle right after openFile, over a bucket that holds the object.
InitFile ==
  /\ store = {FileKey}
  /\ script = [style |-> "s3", pages |-> <<FinalEmptyPage>>, dup |-> FALSE]
  /\ d = NewDir(RootName)
  /\ srvI = 0
  /\ listLog = <<>>
  /\ ret = NoRet
  /\ hist = <<>>
  /\ ns = <<>>
  /\ failed = 0
  /\ fsRet = NoFsRet
  /\ run = Idle
  /\ pair = NoPair
  /\ \E c \in Contents, t \in ETags, cached \in BOOLEAN :
       /\ object = [content |-> c, eTag |-> t[1], next |-> t[2]]
       /\ f = openFile(object, cached)
       /\ reader = NewReader(c)
  /\ fileRet = NoFileRet
  /\ clean = TRUE
  /\ dirReadRet = NoDirRead

Quiet(err) == err = NoErr \/ err = EOF

\* The bytes.Reader follows the handle as long as no call on the handle has
\* failed and the object is unchanged; after that it is put back to the start.
Compared(ok, r) == IF ok THEN r ELSE NewReader(r.s)

\* The handle and the caller after file.Read returned r and the
\* bytes.Reader returned w
ReadReturned(len, r, w) ==
  /\ f' = r.f
  /\ reader' = Compared(clean /\ Quiet(r.err), w.r)
  /\ fileRet' = FileRet("read", 0, 0, len, "none", f, object,
                        Got(r.n, r.bytes, r.f.offset, r.err),
                        Got(w.n, w.bytes, w.r.i, w.err), <<>>)
  /\ clean' = (clean /\ Quiet(r.err))

\* A call of file.Read with a buffer of len bytes
Read(len) ==
  /\ ReadReturned(len, fileRead(f, len), readerRead(reader, len))
  /\ UNCHANGED <<store, pair, run, dirVars, fsRet, object, dirReadRet>>

\* The handle and the caller after file.Seek returned r and the
\* bytes.Reader returned w
SeekReturned(offset, whence, fault, r, w) ==
  /\ r.f.offset <= MaxOffset
  /\ f' = r.f
  /\ reader' = Compared(clean /\ Quiet(r.err), w.r)
  /\ fileRet' = FileRet("seek", offset, whence, 0, fault, f, object,
                        Got(0, <<>>, r.off, r.err), Got(0, <<>>, w.off, w.err), r.calls)
  /\ clean' = (clean /\ Quiet(r.err))

\* A call of file.Seek(offset, whence), in which the step fault fails
Seek(offset, whence, fault) ==
  /\ fault = "stat" => ~f.cached
  /\ fault = "close" => f.body.kind = "body"
  /\ SeekReturned(offset, whence, fault, fileSeek(f, offset, whence, object, fault),
                  readerSeek(reader, offset, whence))
  /\ UNCHANGED <<store, pair, run, dirVars, fsRet, object, dirReadRet>>

\* The object is replaced in the store (deleteFile, writeFile).
Replace ==
  /\ object.content # Replacement
  /\ object' = [object EXCEPT !.content = Replacement, !.eTag = object.next]
  /\ clean' = FALSE
  /\ reader' = NewReader(reader.s)
  /\ UNCHANGED <<store, pair, run, dirVars, fsRet, f, fileRet, dirReadRet>>

NextFile ==
  \/ \E len \in ReadLens : Read(len)
  \/ \E offset \in SeekOffsets, whence \in Whences, fault \in Faults :
        Seek(offset, whence, fault)
  \/ Replace

SpecFile == InitFile /\ [][NextFile]_vars


\* ------------------------------------------------------------------------
\* Properties of the directory enumerator
\* ------------------------------------------------------------------------
\* The children of a directory: one file per object directly under it, one
\* directory per common prefix.
Children(K, name) ==
  {dirEntry(Base(it.key), it.isPrefix) : it \in ItemsUnder(K, ListPrefix(name))}

IsSortedByName(s) == \A i \in 1..(Len(s) - 1) : ~StrLess(s[i + 1].name, s[i].name)

CountOf(s, e) == Cardinality({i \in 1..Len(s) : s[i] = e})

\* s holds every element of S once and nothing else.
ExactlyOnce(s, S) == Len(s) = Cardinality(S) /\ \A e \in S : CountOf(s, e) = 1

\* A single ReadDir(-1) on a fresh enumerator over the pages of sc
DrainFresh(sc, name) == dirReadDir(World(NewDir(name), 0, <<>>, 0), -1, sc, 0)

\* The directory exists: the root always does, another one has a child.
DirExists(K, name) == name = RootName \/ Children(K, name) # {}

\* The store cuts the listing into non-empty pages and marks the last one; the
\* scripted double, which closes with an empty page, is used on the root as in
\* TestDirRead.
SplitsListing(sc, name) == sc.style = "s3" \/ name = RootName

InScope == DirExists(store, d.name) /\ SplitsListing(script, d.name)

FirstCallDrains == Len(ns) = 1 /\ ns[1] <= 0 /\ failed = 0

DirA == dirEntry(KeyA, TRUE)
FileATxt == dirEntry(KeyATxt, FALSE)
DirB == dirEntry(KeyB, TRUE)
ScenarioKeys == {KeyABTxt, KeyATxt, KeyBCTxt}

\* C1: a ReadDir(n <= 0) on a fresh enumerator returns every child exactly
\* once, sorted ascending by base name, and the same sequence for every way
\* the store pages the listing; keys {a/b.txt, a.txt, b/c.txt} at the root
\* give [a (dir), a.txt (file), b (dir)].
C1_DrainIsPaginationTransparent ==
  (FirstCallDrains /\ InScope) =>
     /\ ret.err = NoErr
     /\ ExactlyOnce(ret.des, Children(store, d.name))
     /\ IsSortedByName(ret.des)
     /\ \A sc \in {x \in Scripts(store, d.name) : SplitsListing(x, d.name)} :
           DrainFresh(sc, d.name).des = ret.des
     /\ (store = ScenarioKeys /\ d.name = RootName) => ret.des = <<DirA, FileATxt, DirB>>

\* C1 witness: the scenario keys at the root, listed one item per page.
C1_Witness ==
  /\ FirstCallDrains
  /\ store = ScenarioKeys /\ d.name = RootName
  /\ script.style = "s3" /\ Len(script.pages) = 3
  /\ ret.des = <<DirA, FileATxt, DirB>>

AllCallsChunked == Len(ns) >= 1 /\ ns[1] > 0 /\ \A i \in 1..Len(ns) : ns[i] = ns[1]

\* C2: for every n > 0, the batches of repeated ReadDir(n) calls on a fresh
\* enumerator, up to end-of-sequence, concatenate to the sequence a single
\* ReadDir(n <= 0) on a fresh enumerator returns.
C2_ChunkedEqualsDrain ==
  (AllCallsChunked /\ ret.err = EOF /\ failed = 0 /\ InScope) =>
     hist = DrainFresh(script, d.name).des

EarlierCallsChunked == Len(ns) >= 2 /\ \A i \in 1..(Len(ns) - 1) : ns[i] > 0

\* C3: after ReadDir(n > 0) calls, a following ReadDir(n <= 0) returns, as one
\* sorted batch, exactly the children the earlier calls did not return, also
\* those still buffered when the last page was already fetched, and leaves
\* the buffer empty.
C3_DrainReturnsTheRest ==
  (EarlierCallsChunked /\ ns[Len(ns)] <= 0 /\ failed = 0 /\ InScope) =>
     /\ ret.err = NoErr
     /\ ExactlyOnce(hist, Children(store, d.name))
     /\ IsSortedByName(ret.des)
     /\ d.buf = <<>>

LastCallChunked == Len(ns) >= 1 /\ ns[Len(ns)] > 0

\* C4: a ReadDir(n > 0) returns io.EOF exactly when, after the batch is
\* removed, a non-truncated page has been seen and the buffer is empty; so
\* the last entries come with io.EOF, a call that leaves entries buffered or
\* pages unfetched returns no io.EOF, and an exhausted enumerator reports
\* io.EOF and no failure.
C4_EofExactlyWhenExhausted ==
  LastCallChunked =>
     /\ ret.err = EOF <=> (d.done /\ Len(d.buf) = 0)
     /\ (ret.err # NoErr /\ ret.err # EOF) => (~d.done /\ ret.des = <<>>)

\* C4 witness: the call that returns the last entries carries io.EOF.
C4_Witness ==
  /\ LastCallChunked /\ Len(ns) >= 2
  /\ ret.err = EOF /\ Len(ret.des) > 0
  /\ ret.k > 0

\* The directory names a script lists more than once
PrefixOccurrences(sc, q) ==
  LET F[j \in 0..Len(sc.pages)] ==
        IF j = 0 THEN 0
        ELSE F[j - 1] + Cardinality({x \in 1..Len(sc.pages[j].CommonPrefixes) :
                                       sc.pages[j].CommonPrefixes[x] = q})
  IN F[Len(sc.pages)]

AllPrefixes(sc) ==
  UNION {{sc.pages[j].CommonPrefixes[x] : x \in 1..Len(sc.pages[j].CommonPrefixes)}
           : j \in 1..Len(sc.pages)}

DupPrefixes(sc) == {q \in AllPrefixes(sc) : PrefixOccurrences(sc, q) >= 2}

\* C5: a common prefix the store returns more than once, on one page or on
\* several, gives one directory entry in the total output: never a second
\* one, returned or buffered, and exactly one once everything is returned.
C5_RepeatedPrefixListedOnce ==
  \A q \in DupPrefixes(script) :
     /\ CountOf(hist \o d.buf, dirEntry(Base(q), TRUE)) <= 1
     /\ (d.done /\ d.buf = <<>>) => CountOf(hist, dirEntry(Base(q), TRUE)) = 1

\* C5 witness: the directory was handed out by an earlier call, is listed
\* again on a later page, and the enumeration has finished.
C5_Witness ==
  /\ Len(script.pages) >= 2
  /\ \E q \in DupPrefixes(script) :
        /\ \E x \in 1..Len(script.pages[1].CommonPrefixes) :
              script.pages[1].CommonPrefixes[x] = q
        /\ \E x \in 1..Len(script.pages[Len(script.pages)].CommonPrefixes) :
              script.pages[Len(script.pages)].CommonPrefixes[x] = q
        /\ Len(ns) >= 2 /\ AllCallsChunked
        /\ hist[1] = dirEntry(Base(q), TRUE)
  /\ d.done /\ d.buf = <<>>

EmptyRoot == store = {} /\ d.name = RootName /\ failed = 0

\* C6: on the root of a store without keys the first ReadDir returns an
\* empty non-nil batch, with no error for n <= 0 and io.EOF for n > 0; a
\* following ReadDir(n <= 0) again returns an empty non-nil batch, no error.
C6_EmptyRootListsEmpty ==
  /\ (EmptyRoot /\ Len(ns) = 1) =>
        /\ ret.des = <<>> /\ ~ret.desNil
        /\ ret.err = (IF ns[1] <= 0 THEN NoErr ELSE EOF)
  /\ (EmptyRoot /\ Len(ns) = 2 /\ ns[2] <= 0) =>
        /\ ret.des = <<>> /\ ~ret.desNil
        /\ ret.err = NoErr

\* C6 witness: ReadDir(1), then ReadDir(-1), on the empty root.
C6_Witness ==
  /\ EmptyRoot /\ ns = <<1, -1>>
  /\ ret.des = <<>> /\ ~ret.desNil /\ ret.err = NoErr


\* ------------------------------------------------------------------------
\* Properties of the facade
\* ------------------------------------------------------------------------
\* A key of the store lies under path, as in prefix path + "/".
HasKeysUnder(K, path) == \E k \in K : HasPrefix(k, path \o <<SLASH>>)

Answered(op) == fsRet.op = op /\ ValidPath(fsRet.path) /\ ~fsRet.storeFailed

IsNotExist(err) ==
  err.kind = "ErrNotExist" \/ (err.kind = "PathError" /\ err.cause = "ErrNotExist")

CallsOf(api) == {i \in 1..Len(fsRet.calls) : fsRet.calls[i].api = api}

\* C7: ReadDir of a valid non-root path that is no object and has no key
\* under it fails with PathError{"readdir", path, fs.ErrNotExist}; ReadDir of
\* the root never fails with fs.ErrNotExist, whatever the store holds.
C7_ReadDirNotExist ==
  /\ (Answered("readdir") /\ fsRet.path # RootName
        /\ fsRet.path \notin store /\ ~HasKeysUnder(store, fsRet.path)) =>
       fsRet.err = PathError("readdir", fsRet.path, ErrNotExist)
  /\ (fsRet.op = "readdir" /\ fsRet.path = RootName) => ~IsNotExist(fsRet.err)

\* C7 witness: ReadDir("a/c") fails with fs.ErrNotExist although "a/" is a
\* prefix of keys in the store.
C7_Witness ==
  /\ Answered("readdir") /\ fsRet.path = KeyAC
  /\ KeyABTxt \in store /\ KeyACD \notin store
  /\ fsRet.err = PathError("readdir", KeyAC, ErrNotExist)

\* C8: Open resolves in this order: the root is a directory handle; a path
\* that is an object is a file handle, also when keys lie under it; a path
\* with keys under it is a directory handle; anything else fails with
\* PathError{"open", path, fs.ErrNotExist}.
C8_OpenResolutionOrder ==
  Answered("open") =>
    IF fsRet.path = RootName THEN fsRet.kind = "dir" /\ fsRet.err = NoErr
    ELSE IF fsRet.path \in store
      THEN fsRet.kind = "file" /\ fsRet.name = fsRet.path /\ fsRet.err = NoErr
    ELSE IF HasKeysUnder(store, fsRet.path)
      THEN fsRet.kind = "dir" /\ fsRet.name = fsRet.path /\ fsRet.err = NoErr
    ELSE fsRet.kind = "err" /\ fsRet.err = PathError("open", fsRet.path, ErrNotExist)

\* C8 witness: "a" is an object and a prefix of other keys; Open gives a file.
C8_Witness ==
  /\ Answered("open") /\ fsRet.path = KeyA
  /\ KeyA \in store /\ HasKeysUnder(store, KeyA)
  /\ fsRet.kind = "file"

\* C9: Stat never calls GetObject; the root is a directory without a store
\* call; otherwise HeadObject is called once and, when it succeeds, the file
\* is returned without a listing; only a not-found HeadObject is followed by
\* one ListObjectsV2 call with MaxKeys 1, and the result is a directory when
\* that listing is non-empty and PathError{"stat", path, fs.ErrNotExist}
\* when it is empty.
C9_StatProbesThenLists ==
  (fsRet.op = "stat" /\ ValidPath(fsRet.path)) =>
    /\ CallsOf("GetObject") = {} /\ CallsOf("ListObjects") = {}
    /\ fsRet.path = RootName => (fsRet.calls = <<>> /\ fsRet.kind = "dir")
    /\ fsRet.path # RootName =>
         /\ Len(fsRet.calls) \in {1, 2}
         /\ fsRet.calls[1] = StoreCall("HeadObject", fsRet.path, 0)
         /\ Len(fsRet.calls) = 2 =>
              /\ fsRet.path \notin store
              /\ fsRet.calls[2] = StoreCall("ListObjectsV2", fsRet.path \o <<SLASH>>, 1)
         /\ (fsRet.storeFailed /\ Len(fsRet.calls) = 1) =>
              fsRet.err = PathError("stat", fsRet.path, BackendErr)
         /\ (~fsRet.storeFailed /\ fsRet.path \in store) =>
              (fsRet.kind = "file" /\ Len(fsRet.calls) = 1)
         /\ (~fsRet.storeFailed /\ fsRet.path \notin store) =>
              /\ Len(fsRet.calls) = 2
              /\ IF HasKeysUnder(store, fsRet.path)
                   THEN fsRet.kind = "dir" /\ fsRet.err = NoErr
                   ELSE fsRet.err = PathError("stat", fsRet.path, ErrNotExist)

\* C9 witness: Stat("b") finds no object and one key under "b/".
C9_Witness ==
  /\ Answered("stat") /\ fsRet.path = KeyB
  /\ fsRet.calls = <<StoreCall("HeadObject", KeyB, 0),
                     StoreCall("ListObjectsV2", KeyB \o <<SLASH>>, 1)>>
  /\ fsRet.kind = "dir"

\* C10: ReadDir of a path that is an object fails with
\* PathError{"readdir", path, errNotDir} and fetches no page of the listing.
C10_ReadDirOnFile ==
  (Answered("readdir") /\ fsRet.path # RootName /\ fsRet.path \in store) =>
    /\ fsRet.err = PathError("readdir", fsRet.path, errNotDir)
    /\ CallsOf("ListObjects") = {} /\ CallsOf("ListObjectsV2") = {}

\* C10 witness: ReadDir("a/b.txt")
C10_Witness ==
  /\ Answered("readdir") /\ fsRet.path = KeyABTxt /\ KeyABTxt \in store
  /\ fsRet.err = PathError("readdir", KeyABTxt, errNotDir)
  /\ fsRet.calls = <<StoreCall("HeadObject", KeyABTxt, 0)>>

\* The enumerator after j more pages were fetched and merged
RECURSIVE AfterPages(_, _, _)
AfterPages(w, sc, j) ==
  IF j = 0 THEN w ELSE AfterPages(readNext(w, sc, 0).w, sc, j - 1)

\* The step is a call of dir.ReadDir(n) with n > 0 that returns nil or
\* io.EOF.
ChunkedStep == ns' # ns /\ ret'.n > 0 /\ ret'.err \in {NoErr, EOF}

\* C19: a ReadDir(n) with n > 0 returns at most n entries; each of its
\* ListObjects calls is issued while fewer than n entries are buffered and
\* the listing is not done, so that a call that finds n entries buffered, or
\* the listing done, issues none; and the entries it does not return stay
\* in the buffer, in order, behind the ones returned.
C19_FetchesOnlyAsNeeded ==
  [][ChunkedStep =>
       /\ Len(ret'.des) <= ret'.n
       /\ Len(listLog') = Len(listLog) + ret'.k
       /\ \A j \in 0..(ret'.k - 1) :
            /\ Len(AfterPages(World(d, srvI, listLog, 0), script, j).d.buf) < ret'.n
            /\ ~AfterPages(World(d, srvI, listLog, 0), script, j).d.done
       /\ (Len(d.buf) >= ret'.n \/ d.done) => (ret'.k = 0 /\ listLog' = listLog)
       /\ ret'.des \o d'.buf
            = AfterPages(World(d, srvI, listLog, 0), script, ret'.k).d.buf]_vars

\* C19 witness: a ReadDir(1) that found entries buffered, issued no
\* ListObjects call, returned one entry and left another in the buffer.
C19_Witness ==
  /\ ret.n = 1 /\ ret.k = 0 /\ ret.err = NoErr
  /\ Len(ret.des) = 1 /\ Len(d.buf) > 0
  /\ Len(ns) > 1 /\ Len(listLog) > 0

\* The step is a call of dir.ReadDir that fetches one page, which is merged.
OnePageStep ==
  /\ ns' # ns /\ ret'.err \in {NoErr, EOF}
  /\ Len(listLog') = Len(listLog) + 1

\* The names buffered when that page is merged: of the entries buffered
\* before, and of the objects of the page
NamesBuffered(objectsOnly) ==
  {d.buf[i].name : i \in {j \in 1..Len(d.buf) : ~objectsOnly \/ ~d.buf[j].isDir}}
    \cup {Base(ListObjects(script, d.marker, srvI).Contents[i]) :
            i \in 1..Len(ListObjects(script, d.marker, srvI).Contents)}

\* The directories the merge of that page moves into the buffer, and the
\* ones it leaves pending
ReleasedNow ==
  {de \in DOMAIN d'.dirs : d'.dirs[de] /\ ~(de \in DOMAIN d.dirs /\ d.dirs[de])}

PendingAfter == {de \in DOMAIN d'.dirs : ~d'.dirs[de]}

InvalidPaths == {BadAbs, BadTrail, BadDot}

\* C11: Open, Stat and ReadDir of a structurally invalid path fail with
\* PathError{op, path, fs.ErrInvalid}, op being "open", "stat" or "readdir",
\* and no call to the store is issued.
C11_InvalidPathFailsFirst ==
  (fsRet.op \in {"open", "stat", "readdir"} /\ fsRet.path \in InvalidPaths) =>
    /\ fsRet.err = PathError(fsRet.op, fsRet.path, ErrInvalid)
    /\ fsRet.kind = "err"
    /\ fsRet.calls = <<>>

\* C11 witness: ReadDir("a/") is refused.
C11_Witness ==
  /\ fsRet.op = "readdir" /\ fsRet.path = BadTrail
  /\ fsRet.err = PathError("readdir", BadTrail, ErrInvalid)
  /\ fsRet.calls = <<>>

\* C17: every error that Open, Stat and ReadDir return is a PathError with
\* the operation and the path of the call, also when the store fails in the
\* directory probe of Open or in a page fetch of ReadDir.
C17_ErrorsCarryOpAndPath ==
  (fsRet.op \in {"open", "stat", "readdir"} /\ fsRet.err # NoErr) =>
    /\ fsRet.err.kind = "PathError"
    /\ fsRet.err.op = fsRet.op
    /\ fsRet.err.path = fsRet.path

\* C18: dir.Read returns no bytes and PathError{"read", d.name, "is a
\* directory"}, on the root and on another directory, and leaves the
\* enumerator, its marker, its buffer and its pending directories, and the
\* calls issued to the store as they are.
C18_DirReadIsADirectory ==
  [][dirReadRet' # dirReadRet =>
       /\ dirReadRet' = [n |-> 0, err |-> PathError("read", d.name, ErrIsDir)]
       /\ d' = d
       /\ listLog' = listLog /\ srvI' = srvI]_vars

\* C18 witness: a Read on the directory "a" after a page was fetched and
\* entries were returned, while the listing is not done.
C18_Witness ==
  /\ dirReadRet = [n |-> 0, err |-> PathError("read", KeyA, ErrIsDir)]
  /\ d.name = KeyA /\ ~d.done /\ d.marker > 0 /\ Len(hist) > 0

\* ------------------------------------------------------------------------
\* Properties of the file handle
\* ------------------------------------------------------------------------
\* "nte"
Nte == <<ChN, ChT, ChE>>

\* C12: as long as no call on the handle has failed and the object is
\* unchanged, each Read and Seek of the handle returns what the same call
\* returns on a bytes.Reader over the object's bytes (count, bytes, offset,
\* io.EOF or nil), and the handle stands where the reader stands; on
\* "content", from offset 2, a Read of 3 bytes gives "nte".
C12_HandleMatchesReader ==
  (clean /\ fileRet.op # "") =>
    /\ fileRet.got = fileRet.want
    /\ f.offset = reader.i
    /\ (fileRet.op = "read" /\ reader.s = Content /\ fileRet.before.offset = 2
        /\ fileRet.len = 3) => fileRet.got.bytes = Nte

\* C12 witness: on "content", after a fetch from offset 2 on, a Read of 3
\* bytes returns "nte".
C12_Witness ==
  /\ clean /\ fileRet.op = "read" /\ fileRet.len = 3
  /\ fileRet.before.offset = 2
  /\ fileRet.before.body = Body(SubSeq(Content, 3, 7), 0)
  /\ fileRet.got = Got(3, Nte, 5, NoErr)

\* The size of the object as a Seek call learns it: kept by the handle at
\* open, or else the size of the object the store holds.
SizeSeen(r) == IF r.before.cached THEN r.before.size ELSE Len(r.stored.content)

ValidWhence(r) == r.whence \in {SeekStart, SeekCurrent, SeekEnd}

\* The offset a Seek call asks for
Asked(r) ==
  IF r.whence = SeekStart THEN r.offset
  ELSE IF r.whence = SeekCurrent THEN r.before.offset + r.offset
  ELSE SizeSeen(r) + r.offset

\* The object fetches among the store calls of a Seek call
Fetches(r) == {i \in 1..Len(r.calls) : r.calls[i].api = "GetObject"}

\* The call was a Seek that has to fetch: the handle kept the size and
\* carries an ETag, and the offset asked for is another one than the current
\* and lies in the object.
NeedsFetch(r) ==
  /\ r.op = "seek" /\ ValidWhence(r)
  /\ r.before.cached /\ r.before.eTag # ""
  /\ Asked(r) # r.before.offset
  /\ Asked(r) >= 0 /\ Asked(r) < r.before.size

\* The stream of the handle carries bytes of the object that was opened.
StreamOfOpened ==
  f.body.kind = "body" =>
    f.body.data = SubSeq(reader.s, f.offset - f.body.pos + 1, Len(reader.s))

\* C13: once the object is replaced, a Seek that has to fetch fails, with an
\* error that is fs.ErrNotExist when neither Close nor the store call itself
\* fails, and leaves the offset alone; the stream of the handle never
\* carries bytes of another object than the one opened, and a Read never
\* returns such bytes.
C13_ReplacedObjectIsNotRead ==
  /\ (NeedsFetch(fileRet) /\ fileRet.stored.eTag # fileRet.before.eTag) =>
       /\ fileRet.got.err # NoErr
       /\ fileRet.fault = "none" => fileRet.got.err.cause = "ErrNotExist"
       /\ f.offset = fileRet.before.offset
  /\ StreamOfOpened
  /\ fileRet.op = "read" =>
       fileRet.got.bytes = SubSeq(reader.s, fileRet.before.offset + 1,
                                  fileRet.before.offset + fileRet.got.n)

\* C13 witness: "con" was opened and read to its end, "tent" has replaced
\* it, and Seek(0, io.SeekStart) fails with fs.ErrNotExist.
C13_Witness ==
  /\ NeedsFetch(fileRet) /\ fileRet.fault = "none"
  /\ reader.s = Con /\ fileRet.stored.content = Tent
  /\ fileRet.before.offset = 3
  /\ fileRet.offset = 0 /\ fileRet.whence = SeekStart
  /\ fileRet.got.err = ErrChanged
  /\ fileRet.calls = <<StoreCall("GetObject", FileKey, 0)>>

\* C14: a Seek whose target is the current offset issues no call to the
\* store, leaves the handle with its stream as it is and returns the offset
\* (in a call in which no step is made to fail).
C14_SameOffsetIsNoOp ==
  (fileRet.op = "seek" /\ ValidWhence(fileRet) /\ fileRet.fault = "none"
   /\ Asked(fileRet) = fileRet.before.offset) =>
    /\ fileRet.calls = <<>>
    /\ f = fileRet.before
    /\ fileRet.got = Got(0, <<>>, fileRet.before.offset, NoErr)

\* The call was a Seek to or beyond the end of the unchanged object in which
\* no step failed.
PastEnd(r) ==
  /\ r.op = "seek" /\ ValidWhence(r) /\ r.fault = "none"
  /\ r.stored.content = reader.s
  /\ Asked(r) >= SizeSeen(r)

\* Every Read of the stream returns no bytes and io.EOF.
Exhausted(body) ==
  \A len \in ReadLens : streamRead(body, len) = ReadOut(body, 0, <<>>, EOF)

\* The handle after a Seek to offset to or beyond the end, and after a Read
\* that follows it
AtEndAfter(r) ==
  /\ PastEnd(r) =>
       /\ r.got = Got(0, <<>>, Asked(r), NoErr)
       /\ f.offset = Asked(r)
       /\ Fetches(r) = {}
       /\ Exhausted(f.body)
  /\ (r.op = "read" /\ Exhausted(r.before.body)) =>
       /\ r.got = Got(0, <<>>, r.before.offset, EOF)
       /\ f = r.before

\* C15: every Seek to or beyond the end of the object succeeds without a
\* fetch and sets the offset, and from then on a Read returns no bytes and
\* io.EOF and leaves the offset.
C15_PastEndReadsEof == AtEndAfter(fileRet)


\* C16: a Seek to a negative offset or with an unknown whence fails with the
\* error for the negative position or for the whence, fetches no object and
\* leaves the handle, its offset and its stream, as it was.
C16_InvalidArgumentLeavesHandle ==
  (fileRet.op = "seek" /\ (~ValidWhence(fileRet) \/ Asked(fileRet) < 0)) =>
    /\ fileRet.fault # "stat" =>
         fileRet.got = Got(0, <<>>, 0, IF ValidWhence(fileRet) THEN ErrNegative
                                         ELSE ErrWhence)
    /\ fileRet.got.err # NoErr
    /\ Fetches(fileRet) = {}
    /\ f = fileRet.before

\* C16 witness: after 3 bytes were read, Seek(-1, io.SeekStart) is refused
\* and the handle still stands at offset 3 of its first stream.
C16_Witness ==
  /\ fileRet.op = "seek" /\ fileRet.whence = SeekStart /\ fileRet.offset = -1
  /\ fileRet.got.err = ErrNegative
  /\ f.offset = 3 /\ f.body = Body(Content, 3)

\* ------------------------------------------------------------------------
\* Further properties of the directory enumerator
\* ------------------------------------------------------------------------
\* The step is a call of dir.ReadDir.
ReadDirStep == ns' # ns

\* The pages the call of the step fetched and merged: every ListObjects call
\* of it but one that failed or that found the directory missing.
PagesMerged ==
  IF ret'.err \in {NoErr, EOF} THEN ret'.k ELSE ret'.k - 1

\* C21: after every page a ReadDir call fetches and merges, d.buf is sorted
\* ascending by name; so the batch the call returns and the buffer it leaves
\* are each sorted by name.
C21_BufferSortedAfterEachPage ==
  [][ReadDirStep =>
       /\ \A j \in 1..PagesMerged :
            IsSortedByName(AfterPages(World(d, srvI, listLog, 0), script, j).d.buf)
       /\ IsSortedByName(ret'.des)
       /\ IsSortedByName(d'.buf)]_vars

\* C21 witness: one page brought the object "a.txt" and, behind it, the
\* prefix "a/"; the directory "a" is returned in front of "a.txt".
C21_Witness ==
  /\ store = {KeyATxt, KeyABTxt} /\ d.name = RootName
  /\ Len(script.pages) = 1 /\ ~script.dup /\ script.style = "s3"
  /\ ns = <<2>> /\ ret.k = 1
  /\ ret.des = <<DirA, FileATxt>>

\* The ListObjects calls of the log that the store served
Served(log) == {i \in 1..Len(log) : log[i].ok}

\* The page the store gives to the next ListObjects call is empty.
NextPageEmpty ==
  Len(ListObjects(script, d.marker, srvI).CommonPrefixes)
    + Len(ListObjects(script, d.marker, srvI).Contents) = 0

\* C22: readNext fails with fs.ErrNotExist for the first page only: on an
\* enumerator that is not the root whose first page has neither objects nor
\* common prefixes, as PathError{"readdir", d.name, fs.ErrNotExist}; an empty
\* page behind the first one does not fail the ReadDir call.
C22_NotExistOnFirstPageOnly ==
  [][ReadDirStep =>
       /\ IsNotExist(ret'.err) =>
            /\ d.name # RootName
            /\ ret'.err = PathError("readdir", d.name, ErrNotExist)
            /\ Cardinality(Served(listLog')) = 1
       /\ (d.name # RootName /\ Served(listLog) = {} /\ NextPageEmpty
           /\ Served(listLog') # {}) =>
            ret'.err = PathError("readdir", d.name, ErrNotExist)]_vars

\* The step is a call of dir.ReadDir in which a ListObjects call failed in
\* the store.
FetchFailedStep ==
  /\ ReadDirStep
  /\ Len(listLog') > Len(listLog)
  /\ ~listLog'[Len(listLog')].ok

\* C23: a ReadDir call in which a ListObjects call fails returns the error
\* of the store as it is and no entries; marker, done, pending directories
\* and buffer of the enumerator are as after the last page merged before,
\* so the entries the call fetched before stay buffered; the entries
\* returned so far stay as they are; and once later calls have returned
\* everything, every child was returned exactly once.
C23_FailedFetchKeepsState ==
  [][ReadDirStep =>
       /\ FetchFailedStep =>
            /\ ret'.err = BackendErr
            /\ ret'.des = <<>>
            /\ d' = AfterPages(World(d, srvI, listLog, 0), script, ret'.k - 1).d
            /\ hist' = hist
       /\ (failed' > 0 /\ d'.done /\ d'.buf = <<>>) =>
            ExactlyOnce(hist', Children(store, d.name))]_vars

\* C23 witness: the first ReadDir(-1) fetched a page and failed on the
\* second; the second ReadDir(-1) returned every child, also the one of the
\* first page.
C23_Witness ==
  /\ ns = <<-1, -1>> /\ failed = 1
  /\ Len(listLog) >= 3 /\ listLog[1].ok /\ ~listLog[2].ok
  /\ ret.err = NoErr /\ Len(ret.des) >= 2 /\ hist = ret.des
  /\ d.done /\ d.buf = <<>>

\* The page the store gave to the i-th ListObjects call of the log, a call
\* that it served
PageOf(i) ==
  ListObjects(script, listLog[i].marker, Cardinality(Served(SubSeq(listLog, 1, i - 1))))

\* The last call before the i-th that the store served, 0 when there is none
LastServedBefore(i) ==
  IF Served(SubSeq(listLog, 1, i - 1)) = {} THEN 0
  ELSE CHOOSE j \in Served(SubSeq(listLog, 1, i - 1)) :
         \A x \in Served(SubSeq(listLog, 1, i - 1)) : x <= j

\* The first ListObjects call carries no marker, every later one the
\* NextMarker of the page served last before it.
MarkersChain ==
  \A i \in 1..Len(listLog) :
     listLog[i].marker = (IF LastServedBefore(i) = 0 THEN 0
                          ELSE PageOf(LastServedBefore(i)).NextMarker)

\* The page of the i-th call was merged: readNext did not return
\* fs.ErrNotExist for it.
PageMerged(i) ==
  listLog[i].ok /\ ~(d.name # RootName
                     /\ Len(PageOf(i).CommonPrefixes) + Len(PageOf(i).Contents) = 0)

C25_OpenIssuesAtMostTwoCalls ==
  (fsRet.op = "open" /\ ValidPath(fsRet.path) /\ fsRet.path # RootName) =>
    Len(fsRet.calls) \in {1, 2}

\* The first ReadDir call was a ReadDir(n <= 0), no ListObjects call failed,
\* and the store marks its pages.
DrainedFresh ==
  /\ run.pc = "idle" /\ Len(ns) = 1 /\ ns[1] <= 0
  /\ failed = 0 /\ script.style = "s3"

\* C26: every ReadDir call returns, provided every ListObjects call returns
\* and the store has finitely many pages; a ReadDir(n <= 0) on a fresh
\* enumerator issues one ListObjects call for each page, in the order of the
\* pages, and no more; and a ListObjects call that fails ends the ReadDir
\* call, which returns the error without a further call.
C26_ReadDirTerminates ==
  /\ (run.pc = "loop") ~> (run.pc = "idle")
  /\ [](DrainedFresh =>
          /\ Len(listLog) = Len(script.pages)
          /\ \A i \in 1..Len(listLog) : listLog[i].marker = i - 1 /\ listLog[i].ok)
  /\ [][(Len(listLog') > Len(listLog) /\ ~listLog'[Len(listLog')].ok) =>
          /\ run'.pc = "idle"
          /\ ret'.err = BackendErr
          /\ Len(listLog') = Len(listLog) + 1]_vars

\* C26 witness: a ReadDir(-1) on a fresh enumerator has returned after one
\* ListObjects call for each of three pages.
C26_Witness ==
  /\ DrainedFresh /\ Len(script.pages) = 3
  /\ Len(listLog) = 3 /\ d.done /\ ret.err = NoErr /\ ret.k = 3

\* ------------------------------------------------------------------------
\* Properties of two enumerators of one directory
\* ------------------------------------------------------------------------
\* What the ReadDir calls with the arguments calls return, one after the
\* other, on an enumerator w that is used alone
RECURSIVE AloneFrom(_, _, _)
AloneFrom(w, calls, sc) ==
  IF calls = <<>> THEN [d |-> w.d, batches |-> <<>>]
  ELSE [d |-> AloneFrom(dirReadDir(w, calls[1], sc, 0).w, Tail(calls), sc).d,
        batches |-> <<Batch(dirReadDir(w, calls[1], sc, 0))>>
                    \o AloneFrom(dirReadDir(w, calls[1], sc, 0).w, Tail(calls), sc).batches]

Alone(calls) == AloneFrom(World(NewDir(d.name), 0, <<>>, 0), calls, script)

ChunkedToTheEnd ==
  /\ Len(ns) >= 1 /\ \A i \in 1..Len(ns) : ns[i] > 0
  /\ ret.err = EOF

\* C28: when ReadDir(n) calls with n > 0, n varying from call to call, have
\* been made until io.EOF, every child of the directory has been returned
\* exactly once, for every page split, also when the store lists a prefix
\* twice and when calls in between failed.
C28_ChunksReturnEachChildOnce ==
  ChunkedToTheEnd => ExactlyOnce(hist, Children(store, d.name))

\* C28 witness: ReadDir(1), ReadDir(2), ReadDir(1) over a listing of several
\* pages returned four children, the last with io.EOF.
C28_Witness ==
  /\ ChunkedToTheEnd /\ ns = <<1, 2, 1>>
  /\ Len(script.pages) >= 2 /\ Len(listLog) >= 2
  /\ Len(hist) = 4 /\ Cardinality(Children(store, d.name)) = 4

\* ------------------------------------------------------------------------
\* Listing and resolution
\* ------------------------------------------------------------------------
\* The path of the child name of the directory path
ChildPath(path, name) == IF path = RootName THEN name ELSE path \o <<SLASH>> \o name

KindOf(e) == IF e.isDir THEN "dir" ELSE "file"

\* Stat and Open of the child agree with the entry e of the directory path.
Resolves(K, path, e) ==
  /\ S3FSStat(K, ChildPath(path, e.name), 0).err = NoErr
  /\ S3FSStat(K, ChildPath(path, e.name), 0).kind = KindOf(e)
  /\ e.isDir => S3FSOpen(K, ChildPath(path, e.name), 0).kind = "dir"

\* C29: for every entry that ReadDir of a directory returns, Stat of the
\* child's path succeeds and reports a file for a file entry and a
\* directory for a directory entry, and Open of a child listed as a
\* directory gives a directory handle.
C29_ListingAgreesWithStat ==
  (fsRet.op = "readdir" /\ fsRet.err = NoErr) =>
    \A i \in 1..Len(fsRet.des) : Resolves(store, fsRet.path, fsRet.des[i])

\* ------------------------------------------------------------------------
\* A failed Seek
\* ------------------------------------------------------------------------
\* C30: a Seek that returns an error, because Close of the stream fails, the
\* GetObject call fails or the ETag does not match, leaves the handle as it
\* was: the offset, and the stream, open and at that offset, so that the
\* next Read returns the bytes behind the offset.
C30_FailedSeekLeavesHandle ==
  /\ (fileRet.op = "seek" /\ fileRet.got.err # NoErr) =>
       /\ f.offset = fileRet.before.offset
       /\ f.body = fileRet.before.body
  /\ (fileRet.op = "read" /\ fileRet.before.offset < Len(reader.s) /\ fileRet.len > 0) =>
       /\ fileRet.got.err = NoErr
       /\ fileRet.got.bytes = SubSeq(reader.s, fileRet.before.offset + 1,
                                     fileRet.before.offset + fileRet.got.n)
       /\ fileRet.got.n > 0

====
